---- MODULE Spec2Model ----
(***************************************************************************)
(* Model of the Livelib.ru metadata source plugin (src/__init__.py):       *)
(* the page fetcher, the extractor parse_book_page, the candidate scan of  *)
(* identify, and download_cover.                                           *)
(*                                                                         *)
(* Text is a sequence of one-character strings, so that strip(), lower()   *)
(* and the substring operator `in` are computed and not assumed.  A URL is *)
(* a sequence of segments.  A Python value that may be None is a sequence  *)
(* of length 0 (None) or 1 (the value).                                    *)
(***************************************************************************)
EXTENDS Integers, Sequences, FiniteSets, TLC

(***************************************************************************)
(* Bounds of the model and constants of the program.                       *)
(***************************************************************************)
\* longest list of distinct anchors a modelled search page carries (padding apart)
MaxLinks == 2
\* book_links[:20]
ScanCap == 20
\* author_links[:3]
AuthorLinkCap == 3

(***************************************************************************)
(* Python values.                                                          *)
(***************************************************************************)
None == << >>

Some(x) == << x >>

\* bool(o) of an optional sequence-like value (None and '' / [] are falsy)
Truthy(o) == o # None /\ o[1] # << >>

\* bool(o) of an optional number (None and 0 are falsy)
TruthyNum(o) == o # None /\ o[1] # 0

Min(a, b) == IF a <= b THEN a ELSE b

Range(s) == { s[i] : i \in 1..Len(s) }

\* s[:n]
Take(s, n) == SubSeq(s, 1, Min(n, Len(s)))

(***************************************************************************)
(* str.strip, str.lower, `a in b`, str.startswith on the modelled text.    *)
(***************************************************************************)
IsSpace(c) == c = " "

RECURSIVE LStrip(_)
LStrip(s) == IF s # << >> /\ IsSpace(Head(s)) THEN LStrip(Tail(s)) ELSE s

RECURSIVE RStrip(_)
RStrip(s) ==
    IF s # << >> /\ IsSpace(s[Len(s)]) THEN RStrip(SubSeq(s, 1, Len(s) - 1)) ELSE s

Strip(s) == RStrip(LStrip(s))

LowerChar(c) ==
    CASE c = "A" -> "a"
      [] c = "B" -> "b"
      [] c = "D" -> "d"
      [] c = "X" -> "x"
      [] c = "Z" -> "z"
      [] OTHER -> c

Lower(s) == [i \in 1..Len(s) |-> LowerChar(s[i])]

\* a in b
IsSubstring(a, b) ==
    \E i \in 0..(Len(b) - Len(a)) : SubSeq(b, i + 1, i + Len(a)) = a

(***************************************************************************)
(* URLs.                                                                   *)
(***************************************************************************)
BASE_URL == << "https://www.livelib.ru" >>

\* segments whose text begins with the four characters "http"
HttpSegments == { "https://www.livelib.ru", "http://m.livelib.ru" }

\* segments made of digits only
DigitSegments == { "1", "2", "3", "4", "5", "6", "7" }

\* url.startswith('http')
StartsWithHttp(url) == url # << >> /\ url[1] \in HttpSegments

\* get_book_url: f'{BASE_URL}/book/{livelib_id}'
BookUrl(livelib_id) == BASE_URL \o << "/book/", livelib_id >>

\* id_from_url: re.search(r'/book/(\d+)', url)
IdFromUrl(url) ==
    LET hits == { i \in 1..(Len(url) - 1) :
                    url[i] = "/book/" /\ url[i + 1] \in DigitSegments }
    IN  IF hits = {} THEN None
        ELSE Some(url[CHOOSE i \in hits : \A j \in hits : i <= j])

(***************************************************************************)
(* _fetch_page.  The transport's answer to a request is one of             *)
(*   [t |-> "error"]    open_novisit or read raised (DNS, timeout, ...)    *)
(*   [t |-> "empty"]    the body is b''                                    *)
(*   [t |-> "garbage"]  a body lxml cannot parse                           *)
(*   [t |-> "page"]     a parsable document, v its content                 *)
(* The result carries the exception, if one leaves the function, and the   *)
(* returned value.                                                         *)
(***************************************************************************)
FetchPageUnguarded(resp) ==
    [exc |-> resp.t = "error", raw |-> IF resp.t = "error" THEN None ELSE Some(resp)]

FetchPage(resp) ==
    [exc |-> FALSE, raw |-> IF resp.t = "error" THEN None ELSE Some(resp)]

\* `not raw_html`
NotRaw(raw) == raw = None \/ raw[1].t = "empty"

\* html.fromstring(raw_html) raises
FromStringRaises(raw) == raw[1].t = "garbage"

(***************************************************************************)
(* _extract_json_ld: the first script block that parses as JSON to a dict  *)
(* whose @type is 'Book'.                                                  *)
(***************************************************************************)
ExtractJsonLd(scripts) ==
    LET books == { i \in 1..Len(scripts) : scripts[i].t = "book" }
    IN  IF books = {} THEN None
        ELSE Some(scripts[CHOOSE i \in books : \A j \in books : i <= j].v)

(***************************************************************************)
(* parse_book_page, field by field.                                        *)
(***************************************************************************)
\* lines 123-132: authors of the structured block
RECURSIVE JsonAuthorList(_)
JsonAuthorList(items) ==
    IF items = << >> THEN << >>
    ELSE LET a == Head(items)
         IN  (IF a.t = "dict" /\ Truthy(a.v) THEN << a.v[1] >> ELSE << >>)
                 \o JsonAuthorList(Tail(items))

JsonAuthors(author_data) ==
    CASE author_data.t = "dict" ->
            IF Truthy(author_data.v) THEN << author_data.v[1] >> ELSE << >>
      [] author_data.t = "list" -> JsonAuthorList(author_data.v)
      [] OTHER -> << >>

\* lines 139-141: publisher of the structured block
JsonPublisher(publisher_data) ==
    IF publisher_data.t = "dict" THEN publisher_data.v ELSE None

\* lines 144-149: genres of the structured block
JsonGenres(genre) ==
    CASE genre.t = "str" -> IF genre.v # << >> THEN << genre.v >> ELSE << >>
      [] genre.t = "list" -> genre.v
      [] OTHER -> << >>

\* lines 155-161: float(rating_data.get('ratingValue', 0)), in tenths;
\* None when aggregateRating is absent or not a dict, or float() raises
JsonRating(rating_data) ==
    CASE rating_data.t \in {"num", "numstr"} -> Some(rating_data.v)
      [] rating_data.t = "missing" -> Some(0)
      [] OTHER -> None

\* lines 169-173: title = h1[0].strip() when the title is still empty
MarkupTitle(title, h1) ==
    IF title = << >> /\ h1 # << >> THEN Strip(h1[1]) ELSE title

\* lines 175-180: the for loop over author_links[:3]
RECURSIVE StripUnique(_, _)
StripUnique(texts, acc) ==
    IF texts = << >> THEN acc
    ELSE LET t == Strip(Head(texts))
         IN  StripUnique(Tail(texts),
                         IF t # << >> /\ t \notin Range(acc)
                         THEN Append(acc, t) ELSE acc)

MarkupAuthors(authors, author_links) ==
    IF authors = << >> THEN StripUnique(Take(author_links, AuthorLinkCap), << >>)
    ELSE authors

\* lines 200-205: genres from the markup when the structured block gave none
MarkupGenres(genres, genre_links) ==
    IF genres = << >> THEN StripUnique(genre_links, << >>) ELSE genres

\* lines 184-197: the first series link with visible text, and its index
SeriesOf(series_links) ==
    LET hits == { i \in 1..Len(series_links) : Strip(series_links[i].text) # << >> }
    IN  IF hits = {} THEN [series |-> None, series_index |-> None]
        ELSE LET l == series_links[CHOOSE i \in hits : \A j \in hits : i <= j]
             IN  [series |-> Some(Strip(l.text)), series_index |-> l.tail]

\* lines 209-215: int(year_match[0].strip())
PubYear(year_match) ==
    IF year_match # << >> /\ year_match[1].t = "int"
    THEN Some(year_match[1].v) ELSE None

\* lines 251-256: parse_only_date(str(pub_year)), a failure is swallowed
PubDate(pub_year) ==
    IF TruthyNum(pub_year) /\ pub_year[1] \in 1..9999 THEN pub_year ELSE None

\* line 220: `not title or not authors`
MissingAnd(title, authors) == title = << >> /\ authors = << >>

Missing(title, authors) == title = << >> \/ authors = << >>

\* lines 247-249: mi.rating = rating * 2 (tenths stay tenths)
ScaleRating(rating) ==
    IF TruthyNum(rating) THEN Some(rating[1] * 2) ELSE None

\* The result of parse_book_page for the transport's answer resp:
\*   exc     an exception leaves the function
\*   mi      None or the Metadata object
\*   cached  None or the (livelib id, cover URL) pair given to
\*           cache_identifier_to_cover_url
NoRecord == [exc |-> FALSE, mi |-> None, cached |-> None]

ParseBookPage(resp, book_url) ==
    LET fetched == FetchPage(resp)
        raw_html == fetched.raw
    IN  IF fetched.exc THEN [exc |-> TRUE, mi |-> None, cached |-> None]
        ELSE IF NotRaw(raw_html) THEN NoRecord
        ELSE IF FromStringRaises(raw_html) THEN NoRecord
        ELSE
        LET root        == raw_html[1].v
            json_ld     == ExtractJsonLd(root.scripts)
            has_ld      == json_ld # None
            ld          == json_ld[1]
            title0      == IF has_ld /\ Truthy(ld.name) THEN ld.name[1] ELSE << >>
            authors0    == IF has_ld THEN JsonAuthors(ld.author) ELSE << >>
            isbn        == IF has_ld THEN ld.isbn ELSE None
            publisher   == IF has_ld THEN JsonPublisher(ld.publisher) ELSE None
            genres0     == IF has_ld THEN JsonGenres(ld.genre) ELSE << >>
            description == IF has_ld THEN ld.description ELSE None
            rating      == IF has_ld THEN JsonRating(ld.aggregateRating) ELSE None
            cover_url   == IF has_ld THEN ld.image ELSE None
            title       == MarkupTitle(title0, root.h1)
            authors     == MarkupAuthors(authors0, root.author_links)
            ser         == SeriesOf(root.series_links)
            genres      == MarkupGenres(genres0, root.genre_links)
            pub_year    == PubYear(root.year_match)
            book_id     == IdFromUrl(book_url)
        IN  IF Missing(title, authors) THEN NoRecord
            ELSE [exc |-> FALSE,
                  mi |-> Some([title        |-> title,
                               authors      |-> authors,
                               livelib      |-> book_id,
                               isbn         |-> IF Truthy(isbn) THEN isbn ELSE None,
                               tags         |-> genres,
                               series       |-> ser.series,
                               series_index |-> IF ser.series # None
                                                   /\ TruthyNum(ser.series_index)
                                                THEN ser.series_index ELSE None,
                               publisher    |-> IF Truthy(publisher)
                                                THEN publisher ELSE None,
                               comments     |-> IF Truthy(description)
                                                THEN description ELSE None,
                               rating       |-> ScaleRating(rating),
                               pubdate      |-> PubDate(pub_year)]),
                  cached |-> IF Truthy(cover_url) /\ book_id # None
                             THEN Some(<< book_id[1], cover_url[1] >>) ELSE None]

(***************************************************************************)
(* The documents the transport may answer with.                            *)
(***************************************************************************)
SP == << " " >>

NoValue == [t |-> "none", v |-> None]

JsonNames == { None, Some(<< >>), Some(<< "T" >>) }

JsonAuthorData ==
    { NoValue,
      [t |-> "str", v |-> None],
      [t |-> "dict", v |-> None],
      [t |-> "dict", v |-> Some(<< "A" >>)],
      [t |-> "list", v |-> << [t |-> "str", v |-> None],
                              [t |-> "dict", v |-> Some(<< "A" >>)],
                              [t |-> "dict", v |-> None],
                              [t |-> "dict", v |-> Some(<< "B" >>)] >>] }

JsonGenreData ==
    { NoValue,
      [t |-> "str", v |-> << >>],
      [t |-> "str", v |-> << "g" >>],
      [t |-> "list", v |-> << << "g" >>, << "h" >>, << "g" >> >>],
      [t |-> "list", v |-> << << "g" >>, << "h" >> >>] }

\* ratingValue in tenths: 0.0, 2.5, 4.2, 5.0 and the out-of-range 6.0
RatingTenths == { 0, 25, 42, 50, 60 }

JsonRatingData ==
    { NoValue, [t |-> "nondict", v |-> None], [t |-> "missing", v |-> None],
      [t |-> "badstr", v |-> None], [t |-> "null", v |-> None],
      [t |-> "numstr", v |-> 25] }
        \cup { [t |-> "num", v |-> r] : r \in RatingTenths }

H1Texts == { << >>, << SP >>, << << " ", "H", " " >>, << "I" >> >> }

AuthorLinkTexts ==
    { << >>, << SP >>,
      << << "A" >>, << " ", "A" >>, << "B" >>, << "Z" >> >>,
      << SP, SP, SP, << "A" >> >> }

GenreLinkTexts ==
    { << >>, << SP >>, << << "g" >>, SP, << "g", " " >>, << "h" >> >> }

PlainBook ==
    [name |-> None, author |-> NoValue, isbn |-> None, publisher |-> NoValue,
     genre |-> NoValue, description |-> None, aggregateRating |-> NoValue,
     image |-> None]

\* structured blocks that vary the fields the markup can also supply, and
\* the rating
CoreBooks ==
    { [PlainBook EXCEPT !.name = n, !.author = a, !.genre = g,
                        !.aggregateRating = r] :
        n \in JsonNames, a \in JsonAuthorData, g \in JsonGenreData,
        r \in JsonRatingData }

\* structured blocks that vary the fields only the block supplies
ExtraBooks ==
    { [PlainBook EXCEPT !.name = Some(<< "T" >>),
                        !.author = [t |-> "dict", v |-> Some(<< "A" >>)],
                        !.isbn = i, !.publisher = p, !.description = d,
                        !.image = c] :
        i \in { None, Some(<< >>), Some(<< "9", "7", "8" >>) },
        p \in { NoValue, [t |-> "str", v |-> None], [t |-> "dict", v |-> None],
                [t |-> "dict", v |-> Some(<< "P" >>)] },
        d \in { None, Some(<< "D" >>) },
        c \in { None, Some(<< >>), Some(<< "cover.jpg" >>) } }

\* layouts of the script blocks of a page: none of type Book; one Book block;
\* a Book block after blocks that are skipped and before a second Book block
ScriptLayouts ==
    { << >>, << [t |-> "other", v |-> PlainBook] >> }
    \cup { << [t |-> "book", v |-> b] >> : b \in CoreBooks }
    \cup { << [t |-> "invalid", v |-> PlainBook], [t |-> "other", v |-> PlainBook],
              [t |-> "book", v |-> [PlainBook EXCEPT !.name = n, !.author = a]],
              [t |-> "book", v |-> [PlainBook EXCEPT !.name = Some(<< "U" >>)]] >> :
            n \in JsonNames, a \in JsonAuthorData }

PlainPage ==
    [scripts |-> << >>, h1 |-> << >>, author_links |-> << >>,
     genre_links |-> << >>, series_links |-> << >>, year_match |-> << >>]

SeriesLinkLists ==
    { << >>,
      << [text |-> SP, tail |-> Some(1)], [text |-> << "S", " " >>, tail |-> None],
         [text |-> << "R" >>, tail |-> Some(3)] >>,
      << [text |-> << "S" >>, tail |-> Some(2)] >>,
      << [text |-> << "S" >>, tail |-> Some(0)] >> }

YearMatches ==
    { << >>, << [t |-> "bad", v |-> 0] >>, << [t |-> "int", v |-> 0] >>,
      << [t |-> "int", v |-> 1999], [t |-> "int", v |-> 2001] >>,
      << [t |-> "int", v |-> 12345] >> }

\* the book pages whose script blocks follow one of the given layouts, and
\* the pages that vary the series links and the year
BookPages(layouts) ==
    { [PlainPage EXCEPT !.scripts = s, !.h1 = h, !.author_links = al,
                        !.genre_links = gl] :
        s \in layouts, h \in H1Texts, al \in AuthorLinkTexts,
        gl \in GenreLinkTexts }
    \cup
    { [PlainPage EXCEPT !.scripts = << [t |-> "book", v |-> b] >>,
                        !.series_links = sl, !.year_match = ym] :
        b \in ExtraBooks, sl \in SeriesLinkLists, ym \in YearMatches }

Failures ==
    { [t |-> "error", v |-> None], [t |-> "empty", v |-> None],
      [t |-> "garbage", v |-> None] }

PageResponses(pages) == Failures \cup { [t |-> "page", v |-> p] : p \in pages }

\* detail pages answered to identify and download_cover
FullPage ==
    [PlainPage EXCEPT
       !.scripts = << [t |-> "book",
                       v |-> [PlainBook EXCEPT
                                !.name = Some(<< "T" >>),
                                !.author = [t |-> "dict", v |-> Some(<< "A" >>)],
                                !.genre = [t |-> "str", v |-> << "g" >>],
                                !.aggregateRating = [t |-> "num", v |-> 42],
                                !.image = Some(<< "cover.jpg" >>)]] >>]

MarkupPage ==
    [PlainPage EXCEPT !.h1 = << << " ", "H", " " >> >>,
                      !.author_links = << << "A" >>, << "B" >> >>]

DetailPages == { FullPage, MarkupPage, PlainPage }

DetailResponses == PageResponses(DetailPages)

(***************************************************************************)
(* Search pages: the anchors whose href contains "/book/", in document     *)
(* order.  An anchor has its href, its visible text, the text that follows *)
(* it inside its parent, and whether it has a parent at all.               *)
(***************************************************************************)
\* a stray double quote: //a[@href="..."] is then malformed and xpath raises
QuoteSyntax == "\""

\* closes the literal and adds a false comparison: xpath selects nothing
QuoteFalse == "\" and \"a\"=\"b"

Anchor(h, t, b, p) == [href |-> h, text |-> t, byline |-> b, parent |-> p]

Anchors ==
    { Anchor(<< "/book/", "1" >>, << "z" >>, << >>, TRUE),
      Anchor(<< "/book/", "1" >>, << "A", "b" >>, << " ", "X" >>, TRUE),
      Anchor(BASE_URL \o << "/book/", "2" >>, << " ", "A", "b" >>, << >>, TRUE),
      Anchor(<< "/book/", "3" >>, SP, << " ", "X" >>, TRUE),
      Anchor(<< "/book/", "4", QuoteSyntax >>, << "z" >>, << >>, TRUE),
      Anchor(<< "/book/", "5", QuoteFalse >>, << "A", "b" >>, << " ", "X" >>, TRUE),
      Anchor(<< "/book/", "6" >>, << "A", "b" >>, << " ", "X" >>, FALSE) }

\* anchors that match no modelled query, with pairwise different hrefs
Filler(i) ==
    Anchor(<< "/book/", "7" >> \o [j \in 1..i |-> "+"], << "z" >>, << >>, TRUE)

Padding(k) == [i \in 1..k |-> Filler(i)]

\* none, or enough to bring the next anchor to the last scanned position
PadLens == { 0, ScanCap - 1 }

AnchorSeqs == UNION { [1..n -> Anchors] : n \in 0..MaxLinks }

SearchPages == { Padding(k) \o tail : k \in PadLens, tail \in AnchorSeqs }

SearchResponses == PageResponses(SearchPages)

\* arguments of identify and download_cover
LivelibIds == { None, Some(""), Some("7"), Some("x") }

Titles == { None, Some(<< "A", "b", "d", "!" >>) }

\* what the host's get_title_tokens / get_author_tokens may join to
TitleTokens == { << >>, << "A" >>, << "A", "b", "d" >> }

AuthorTokens == { << >>, << "X" >> }

\* what the transport may answer to the request for the image
CoverResponses ==
    { [t |-> "error", v |-> None], [t |-> "empty", v |-> None],
      [t |-> "page", v |-> << "bytes" >>] }

\* bool(s) of an optional identifier
TruthySeg(o) == o # None /\ o[1] # ""

(***************************************************************************)
(* State.                                                                  *)
(***************************************************************************)
VARIABLES
    pc,            \* position of the running call
    op,            \* "none", "identify", "download_cover" or "parse_book_page"
    livelib_id,    \* identifiers.get('livelib')
    title,         \* argument title
    title_tokens,  \* ' '.join(self.get_title_tokens(title))
    author_tokens, \* ' '.join(self.get_author_tokens(...)) or ''
    abort,         \* abort.is_set()
    root,          \* anchors of the parsed search page
    book_links,    \* de-duplicated hrefs
    idx,           \* 1-based position of the for loop in book_links[:20]
    best_match,    \* None or an href / URL
    book_url,      \* None or the URL handed to parse_book_page
    resp,          \* the answer parse_book_page receives (SpecParse)
    mi,            \* None or the Metadata object
    cover_url,     \* None or the cover URL
    cache,         \* host cache: set of (livelib id, cover URL) pairs
    result_queue,  \* what was put on result_queue, in order
    scanned,       \* history: positions of book_links the loop body examined
    fetch_log      \* history: the requests started, with abort.is_set() then

vars ==
    << pc, op, livelib_id, title, title_tokens, author_tokens, abort, root,
       book_links, idx, best_match, book_url, resp, mi, cover_url, cache,
       result_queue, scanned, fetch_log >>

Request(what, answer) ==
    [what |-> what, aborted |-> abort, failed |-> answer.t = "error"]

\* cached_identifier_to_cover_url(f'livelib:{id}')
CacheGet(c, id) ==
    IF \E e \in c : e[1] = id THEN Some((CHOOSE e \in c : e[1] = id)[2]) ELSE None

\* cache_identifier_to_cover_url(f'livelib:{id}', url)
CachePut(c, entry) ==
    IF entry = None THEN c
    ELSE { e \in c : e[1] # entry[1][1] } \cup { entry[1] }

Init ==
    /\ pc = "idle"
    /\ op = "none"
    /\ livelib_id = None
    /\ title = None
    /\ title_tokens = << >>
    /\ author_tokens = << >>
    /\ abort = FALSE
    /\ root = << >>
    /\ book_links = << >>
    /\ idx = 1
    /\ best_match = None
    /\ book_url = None
    /\ resp = None
    /\ mi = None
    /\ cover_url = None
    /\ cache = {}
    /\ result_queue = << >>
    /\ scanned = {}
    /\ fetch_log = {}

(***************************************************************************)
(* The locals of the running call.  They are released when the call        *)
(* returns: an action states the new locals and SetLocals stores them, or  *)
(* the initial values if the action ends the call.                         *)
(***************************************************************************)
Locals ==
    [livelib_id |-> livelib_id, title |-> title, title_tokens |-> title_tokens,
     author_tokens |-> author_tokens, root |-> root, book_links |-> book_links,
     idx |-> idx, best_match |-> best_match, book_url |-> book_url, mi |-> mi,
     cover_url |-> cover_url, scanned |-> scanned]

NoLocals ==
    [livelib_id |-> None, title |-> None, title_tokens |-> << >>,
     author_tokens |-> << >>, root |-> << >>, book_links |-> << >>,
     idx |-> 1, best_match |-> None, book_url |-> None, mi |-> None,
     cover_url |-> None, scanned |-> {}]

SetLocals(f) ==
    LET g == IF pc' = "done" THEN NoLocals ELSE f
    IN  /\ livelib_id' = g.livelib_id
        /\ title' = g.title
        /\ title_tokens' = g.title_tokens
        /\ author_tokens' = g.author_tokens
        /\ root' = g.root
        /\ book_links' = g.book_links
        /\ idx' = g.idx
        /\ best_match' = g.best_match
        /\ book_url' = g.book_url
        /\ mi' = g.mi
        /\ cover_url' = g.cover_url
        /\ scanned' = g.scanned

(***************************************************************************)
(* The host thread that owns the abort event may set it at any moment.     *)
(***************************************************************************)
SetAbort ==
    /\ pc \notin {"done", "raised", "parse", "parsed"}
    /\ ~abort
    /\ abort' = TRUE
    /\ UNCHANGED << pc, op, livelib_id, title, title_tokens, author_tokens, root,
                    book_links, idx, best_match, book_url, resp, mi, cover_url,
                    cache, result_queue, scanned, fetch_log >>

(***************************************************************************)
(* identify                                                                *)
(***************************************************************************)
\* lines 265-273: entry, identifiers.get('livelib')
IdentifyCall ==
    /\ pc = "idle"
    /\ op' = "identify"
    /\ \E id \in LivelibIds, t \in Titles :
          /\ pc' = IF TruthySeg(id) THEN "direct_fetch" ELSE "check_title"
          /\ SetLocals([Locals EXCEPT !.livelib_id = id, !.title = t])
    /\ UNCHANGED << abort, resp, cache, result_queue, fetch_log >>

\* lines 274-276: parse_book_page of the identifier's own page
DirectFetch ==
    /\ pc = "direct_fetch"
    /\ \E r \in DetailResponses :
          LET url == BookUrl(livelib_id[1])
              res == ParseBookPage(r, url)
          IN  /\ pc' = IF res.exc THEN "raised" ELSE "direct_emit"
              /\ SetLocals([Locals EXCEPT !.book_url = Some(url), !.mi = res.mi])
              /\ fetch_log' = fetch_log \cup { Request("detail", r) }
              /\ cache' = CachePut(cache, res.cached)
    /\ UNCHANGED << op, abort, resp, result_queue >>

\* lines 277-279: put the record, if there is one
PutRecord == IF mi # None
             THEN Append(result_queue, [kind |-> "metadata", v |-> mi[1]])
             ELSE result_queue

\* lines 277-280 without the return of line 280
DirectEmitFallsThrough ==
    /\ pc = "direct_emit"
    /\ pc' = "check_title"
    /\ result_queue' = PutRecord
    /\ SetLocals(Locals)
    /\ UNCHANGED << op, abort, resp, cache, fetch_log >>

\* lines 277-280: put the record, if any, and return
DirectEmit ==
    /\ pc = "direct_emit"
    /\ pc' = "done"
    /\ result_queue' = PutRecord
    /\ SetLocals(Locals)
    /\ UNCHANGED << op, abort, resp, cache, fetch_log >>

\* lines 282-284
NoTitle ==
    /\ pc = "check_title"
    /\ ~Truthy(title)
    /\ pc' = "done"
    /\ SetLocals(Locals)
    /\ UNCHANGED << op, abort, resp, cache, result_queue, fetch_log >>

\* line 318: list(dict.fromkeys(book_links))
RECURSIVE DedupeFrom(_, _)
DedupeFrom(hrefs, acc) ==
    IF hrefs = << >> THEN acc
    ELSE DedupeFrom(Tail(hrefs),
                    IF Head(hrefs) \in Range(acc) THEN acc
                    ELSE Append(acc, Head(hrefs)))

Dedupe(hrefs) == DedupeFrom(hrefs, << >>)

\* line 317: //a[contains(@href, "/book/")]/@href
BookHrefs(anchors) == [i \in 1..Len(anchors) |-> anchors[i].href]

\* lines 286-328: build the query, fetch and parse the search page, collect
\* the candidate links
SearchFetch ==
    /\ pc = "check_title"
    /\ Truthy(title)
    /\ \E tt \in TitleTokens, at \in AuthorTokens, r \in SearchResponses :
          LET fetched == FetchPage(r)
              links   == Dedupe(BookHrefs(r.v))
              parsed  == ~fetched.exc /\ ~NotRaw(fetched.raw)
                             /\ ~FromStringRaises(fetched.raw)
          IN  /\ pc' = IF fetched.exc THEN "raised"
                       ELSE IF parsed /\ links # << >> THEN "scan" ELSE "done"
              /\ SetLocals([Locals EXCEPT
                              !.title_tokens = tt,
                              !.author_tokens = at,
                              !.root = IF parsed THEN r.v ELSE << >>,
                              !.book_links = IF parsed THEN links ELSE << >>,
                              !.idx = 1,
                              !.best_match = None])
              /\ fetch_log' = fetch_log \cup { Request("search", r) }
    /\ UNCHANGED << op, abort, resp, cache, result_queue >>

\* lines 327-328
title_lower == Lower(title_tokens)

author_lower == Lower(author_tokens)

\* line 336: root.xpath(f'//a[@href="{href}"]')
XPathRaises(href) == QuoteSyntax \in Range(href)

LinkElems(anchors, href) ==
    IF QuoteFalse \in Range(href) THEN << >>
    ELSE SelectSeq(anchors, LAMBDA a : a.href = href)

\* line 340: link_elems[0].text_content().strip().lower()
LinkText(elem) == Lower(Strip(elem.text))

\* line 351: parent.text_content().lower()
ParentText(elem) == Lower(elem.text \o elem.byline)

\* line 343, with the second test left out
TitleMatchesOneWay(query, link_text) == IsSubstring(query, link_text)

\* line 343: title_lower in link_text or link_text in title_lower
TitleMatches(query, link_text) ==
    IsSubstring(query, link_text) \/ IsSubstring(link_text, query)

\* lines 347-358: whether the title-matching element is taken as best match
AuthorAccepts(author, elem) ==
    IF author # << >>
    THEN elem.parent /\ IsSubstring(author, ParentText(elem))
    ELSE TRUE

\* number of candidates the loop visits: len(book_links[:20])
ScanLimit == Min(Len(book_links), ScanCap)

\* lines 331-358, one iteration, with a break on every title match
ScanStepStopsOnTitle ==
    /\ pc = "scan"
    /\ idx <= ScanLimit
    /\ LET href == book_links[idx]
           link_elems == LinkElems(root, href)
           seen == [Locals EXCEPT !.scanned = scanned \cup { idx }]
       IN  IF abort
           THEN /\ pc' = "done"
                /\ SetLocals(Locals)
           ELSE IF XPathRaises(href)
           THEN /\ pc' = "raised"
                /\ SetLocals(seen)
           ELSE IF link_elems # << >>
                   /\ TitleMatches(title_lower, LinkText(link_elems[1]))
           THEN /\ pc' = "select"
                /\ SetLocals([seen EXCEPT
                                !.best_match =
                                    IF AuthorAccepts(author_lower, link_elems[1])
                                    THEN Some(href) ELSE None])
           ELSE /\ pc' = "scan"
                /\ SetLocals([seen EXCEPT !.idx = idx + 1])
    /\ UNCHANGED << op, abort, resp, cache, result_queue, fetch_log >>

\* lines 331-358: one iteration of the for loop
ScanStep ==
    /\ pc = "scan"
    /\ idx <= ScanLimit
    /\ LET href == book_links[idx]
           link_elems == LinkElems(root, href)
           seen == [Locals EXCEPT !.scanned = scanned \cup { idx }]
       IN  IF abort
           THEN /\ pc' = "done"
                /\ SetLocals(Locals)
           ELSE IF XPathRaises(href)
           THEN /\ pc' = "raised"
                /\ SetLocals(seen)
           ELSE IF link_elems # << >>
                   /\ TitleMatches(title_lower, LinkText(link_elems[1]))
                   /\ AuthorAccepts(author_lower, link_elems[1])
           THEN /\ pc' = "select"
                /\ SetLocals([seen EXCEPT !.best_match = Some(href)])
           ELSE /\ pc' = "scan"
                /\ SetLocals([seen EXCEPT !.idx = idx + 1])
    /\ UNCHANGED << op, abort, resp, cache, result_queue, fetch_log >>

\* line 331: the for loop runs out of candidates
ScanExhausted ==
    /\ pc = "scan"
    /\ idx > ScanLimit
    /\ pc' = "select"
    /\ SetLocals(Locals)
    /\ UNCHANGED << op, abort, resp, cache, result_queue, fetch_log >>

\* lines 361-362, taking the last link instead of the first
FallbackLast(match, links) ==
    IF match = None /\ links # << >> THEN Some(links[Len(links)]) ELSE match

\* lines 361-362: fall back to the first result
Fallback(match, links) ==
    IF match = None /\ links # << >> THEN Some(links[1]) ELSE match

\* lines 367-368: relative URL to absolute
Absolute(url) == IF ~StartsWithHttp(url) THEN BASE_URL \o url ELSE url

\* lines 360-368
Select ==
    /\ pc = "select"
    /\ LET chosen == Fallback(best_match, book_links)
       IN  IF Truthy(chosen)
           THEN /\ pc' = "detail_fetch"
                /\ SetLocals([Locals EXCEPT !.best_match = Some(Absolute(chosen[1]))])
           ELSE /\ pc' = "done"
                /\ SetLocals(Locals)
    /\ UNCHANGED << op, abort, resp, cache, result_queue, fetch_log >>

\* lines 370-371: parse_book_page(best_match)
DetailFetch ==
    /\ pc = "detail_fetch"
    /\ \E r \in DetailResponses :
          LET res == ParseBookPage(r, best_match[1])
          IN  /\ pc' = IF res.exc THEN "raised"
                       ELSE IF res.mi # None THEN "abort_check" ELSE "done"
              /\ SetLocals([Locals EXCEPT !.mi = res.mi])
              /\ fetch_log' = fetch_log \cup { Request("detail", r) }
              /\ cache' = CachePut(cache, res.cached)
    /\ UNCHANGED << op, abort, resp, result_queue >>

\* lines 372-373
EmitCheck ==
    /\ pc = "abort_check"
    /\ pc' = IF abort THEN "done" ELSE "put"
    /\ SetLocals(Locals)
    /\ UNCHANGED << op, abort, resp, cache, result_queue, fetch_log >>

\* lines 374-375
EmitPut ==
    /\ pc = "put"
    /\ pc' = "done"
    /\ result_queue' = PutRecord
    /\ SetLocals(Locals)
    /\ UNCHANGED << op, abort, resp, cache, fetch_log >>

(***************************************************************************)
(* download_cover, called first or after identify has returned, with its   *)
(* own result queue and abort event.                                       *)
(***************************************************************************)
\* lines 377-388: entry and the cached cover URL
CoverCall ==
    /\ pc = "idle" \/ (pc = "done" /\ op = "identify")
    /\ op' = "download_cover"
    /\ \E id \in LivelibIds :
          LET cached == IF TruthySeg(id) THEN CacheGet(cache, id[1]) ELSE None
          IN  /\ pc' = IF ~Truthy(cached) /\ TruthySeg(id)
                       THEN "cover_page" ELSE "cover_fetch"
              /\ SetLocals([NoLocals EXCEPT !.livelib_id = id, !.cover_url = cached])
    /\ abort' = IF pc = "idle" THEN abort ELSE FALSE
    /\ result_queue' = << >>
    /\ fetch_log' = {}
    /\ UNCHANGED << resp, cache >>

\* lines 390-401: fetch the book page for its structured image
CoverPage ==
    /\ pc = "cover_page"
    /\ \E r \in DetailResponses :
          LET url     == BookUrl(livelib_id[1])
              fetched == FetchPage(r)
              usable  == ~fetched.exc /\ ~NotRaw(fetched.raw)
                             /\ ~FromStringRaises(fetched.raw)
              json_ld == IF usable THEN ExtractJsonLd(r.v.scripts) ELSE None
          IN  /\ pc' = IF fetched.exc THEN "raised" ELSE "cover_fetch"
              /\ SetLocals([Locals EXCEPT
                              !.book_url = Some(url),
                              !.cover_url = IF json_ld # None
                                            THEN json_ld[1].image ELSE cover_url])
              /\ fetch_log' = fetch_log \cup { Request("cover_page", r) }
    /\ UNCHANGED << op, abort, resp, cache, result_queue >>

\* lines 403-405
NoCover ==
    /\ pc = "cover_fetch"
    /\ ~Truthy(cover_url)
    /\ pc' = "done"
    /\ SetLocals(Locals)
    /\ UNCHANGED << op, abort, resp, cache, result_queue, fetch_log >>

\* lines 407-419: download the image and put it on the queue
CoverDownload ==
    /\ pc = "cover_fetch"
    /\ Truthy(cover_url)
    /\ pc' = "done"
    /\ \E r \in CoverResponses :
          /\ fetch_log' = fetch_log \cup { Request("cover", r) }
          /\ result_queue' = IF r.t = "page"
                             THEN Append(result_queue, [kind |-> "cover", v |-> r.v])
                             ELSE result_queue
    /\ SetLocals(Locals)
    /\ UNCHANGED << op, abort, resp, cache >>

Next ==
    \/ SetAbort
    \/ IdentifyCall
    \/ DirectFetch
    \/ DirectEmit
    \/ NoTitle
    \/ SearchFetch
    \/ ScanStep
    \/ ScanExhausted
    \/ Select
    \/ DetailFetch
    \/ EmitCheck
    \/ EmitPut
    \/ CoverCall
    \/ CoverPage
    \/ NoCover
    \/ CoverDownload

Spec == Init /\ [][Next]_vars

(***************************************************************************)
(* parse_book_page on its own: every modelled answer of the transport, for *)
(* a URL with and without a numeric identifier.                            *)
(***************************************************************************)
ParseUrls == { BookUrl("7"), BookUrl("x") }

InitParse ==
    /\ pc = "parse"
    /\ op = "parse_book_page"
    /\ livelib_id = None
    /\ title = None
    /\ title_tokens = << >>
    /\ author_tokens = << >>
    /\ abort = FALSE
    /\ root = << >>
    /\ book_links = << >>
    /\ idx = 1
    /\ best_match = None
    /\ book_url \in { Some(u) : u \in ParseUrls }
    /\ resp \in { Some(r) : r \in PageResponses(BookPages(ScriptLayouts)) }
    /\ mi = None
    /\ cover_url = None
    /\ cache = {}
    /\ result_queue = << >>
    /\ scanned = {}
    /\ fetch_log = {}

\* lines 87-263
ParseStep ==
    /\ pc = "parse"
    /\ LET res == ParseBookPage(resp[1], book_url[1])
       IN  /\ pc' = IF res.exc THEN "raised" ELSE "parsed"
           /\ SetLocals([Locals EXCEPT !.mi = res.mi])
           /\ fetch_log' = fetch_log \cup { Request("detail", resp[1]) }
           /\ cache' = CachePut(cache, res.cached)
    /\ UNCHANGED << op, abort, resp, result_queue >>

NextParse == ParseStep

SpecParse == InitParse /\ [][NextParse]_vars

(***************************************************************************)
(* Properties.                                                             *)
(***************************************************************************)
MetadataPuts ==
    { i \in 1..Len(result_queue) : result_queue[i].kind = "metadata" }

\* candidate j of book_links passes the title test of line 343
TitlePasses(j) ==
    LET href == book_links[j]
        link_elems == LinkElems(root, href)
    IN  /\ ~XPathRaises(href)
        /\ link_elems # << >>
        /\ IsSubstring(title_lower, LinkText(link_elems[1]))
              \/ IsSubstring(LinkText(link_elems[1]), title_lower)

\* candidate j passes the title test and, when an author query is present,
\* its parent's text contains the author query
Passes(j) ==
    /\ TitlePasses(j)
    /\ LET elem == LinkElems(root, book_links[j])[1]
       IN  author_lower # << >> =>
              elem.parent /\ IsSubstring(author_lower, Lower(elem.text \o elem.byline))

\* candidate j was found by the lookup and its visible text is empty after
\* strip and lower
EmptyText(j) ==
    LET href == book_links[j]
        link_elems == LinkElems(root, href)
    IN  /\ ~XPathRaises(href)
        /\ link_elems # << >>
        /\ Lower(Strip(link_elems[1].text)) = << >>

\* the structured Book block of the page parse_book_page was given, if any
ParsedBook ==
    IF resp # None /\ resp[1].t = "page" THEN ExtractJsonLd(resp[1].v.scripts)
    ELSE None

\* C1: whatever path identify takes, whatever the fetches answer and
\* whenever abort is set, at most one metadata record is on the result queue.
C1_AtMostOneRecord ==
    op = "identify" => Cardinality(MetadataPuts) <= 1

\* C1 witness: identify has returned from the search path with one record put.
C1_Witness ==
    /\ op = "identify"
    /\ pc = "done"
    /\ Cardinality(MetadataPuts) = 1
    /\ \E f \in fetch_log : f.what = "search"

\* C2: once a page fetch of identify has failed (search page or detail page),
\* the result queue stays empty, no exception leaves identify, and identify
\* is at or right before its return.
C2_FetchFailureEmitsNothing ==
    (op = "identify" /\ \E f \in fetch_log : f.failed) =>
        /\ result_queue = << >>
        /\ pc \in {"direct_emit", "done"}

\* C2 witness: the search page was fetched, the detail page fetch failed, and
\* identify has returned.
C2_Witness ==
    /\ op = "identify"
    /\ pc = "done"
    /\ \E f \in fetch_log : f.what = "search" /\ ~f.failed
    /\ \E f \in fetch_log : f.what = "detail" /\ f.failed
    /\ result_queue = << >>

\* C3: while the abort signal is set, identify puts nothing on the result
\* queue, on the direct-identifier path and on the search path.
C3_NoEmitAfterAbort ==
    [][(op' = "identify" /\ abort) => result_queue' = result_queue]_vars

\* C4: no fetch of identify or download_cover (search page, detail page,
\* cover image) is started while the abort signal is set.
C4_NoFetchWhileAborted ==
    \A f \in fetch_log : ~f.aborted

\* C5: parse_book_page returns a record only with a non-empty title and at
\* least one author; with an empty title or no author, after the structured
\* data and the markup fallback, it returns no record.
C5_RecordHasTitleAndAuthor ==
    mi # None => (mi[1].title # << >> /\ Len(mi[1].authors) >= 1)

\* C5 witness: a record built from the markup fallback alone (no Book block).
C5_Witness ==
    /\ pc = "parsed"
    /\ mi # None
    /\ resp[1].t = "page"
    /\ ParsedBook = None
    /\ resp[1].v.h1 # << >>

\* C6: a page that yields a record and whose structured aggregate rating is a
\* number r in [0,5] gives the record the rating 2r, in [0,10] (tenths here).
C6_RatingDoubled ==
    (pc = "parsed" /\ mi # None /\ ParsedBook # None
        /\ ParsedBook[1].aggregateRating.t = "num"
        /\ ParsedBook[1].aggregateRating.v \in 0..50) =>
            /\ mi[1].rating = Some(2 * ParsedBook[1].aggregateRating.v)
            /\ mi[1].rating[1] \in 0..100

\* C7: when the scan ends without abort and no scanned candidate passes the
\* title test (and the author test, if an author query is present), the URL
\* fetched next is the first anchor's href in document order, prefixed with
\* the base URL when it is relative.
C7_FallbackIsFirst ==
    (pc = "detail_fetch" /\ \A j \in scanned : ~Passes(j)) =>
        best_match = Some(IF root[1].href[1] \in HttpSegments
                          THEN root[1].href
                          ELSE << "https://www.livelib.ru" >> \o root[1].href)

\* C7 witness: two or more candidates were all scanned, one passed the title
\* test only, none was accepted, and the first one is relative.
C7_Witness ==
    /\ pc = "detail_fetch"
    /\ Len(book_links) >= 2
    /\ scanned = 1..Len(book_links)
    /\ \A j \in scanned : ~Passes(j)
    /\ \E j \in scanned : TitlePasses(j)
    /\ root[1].href[1] \notin HttpSegments

\* C8: the tags of a record returned by parse_book_page hold no genre twice.
C8_TagsDistinct ==
    mi # None =>
        \A i, j \in 1..Len(mi[1].tags) : i # j => mi[1].tags[i] # mi[1].tags[j]

\* C9 as stated: after a candidate passed the title test, no later candidate
\* is examined, whatever its author check gave.
C9_StopsOnFirstTitleMatch ==
    \A j \in scanned : TitlePasses(j) => \A k \in scanned : k <= j

\* C9 amended: the scan stops at the first candidate that passes the title
\* test and the author check; it is then the match.  A candidate that passes
\* the title test only does not stop the scan: when the loop ends without a
\* match, every one of the first 20 candidates was examined.
C9_StopsOnFirstAccepted ==
    /\ \A j \in scanned :
          Passes(j) => /\ \A k \in scanned : k <= j
                       /\ pc # "scan"
                       /\ pc = "select" => best_match = Some(book_links[j])
    /\ (pc = "select" /\ best_match = None) => scanned = 1..ScanLimit

\* C9 witness: a candidate that passed the title test but not the author
\* check was followed by a later candidate, which was accepted.
C9_Witness ==
    /\ pc = "select"
    /\ \E j, k \in scanned :
          /\ j < k
          /\ TitlePasses(j)
          /\ ~Passes(j)
          /\ best_match = Some(book_links[k])

\* C10: a scanned candidate with empty visible text passes the title test for
\* every title query; with no author query it ends the scan and is the match.
\* Only the first 20 candidates are ever scanned.
C10_EmptyTextIsAccepted ==
    /\ \A j \in scanned : j <= 20
    /\ \A j \in scanned :
          (EmptyText(j) /\ author_lower = << >>) =>
              /\ \A k \in scanned : k <= j
              /\ pc # "scan"
              /\ pc = "select" => best_match = Some(book_links[j])

\* C10 witness: a non-empty title query, no author query, and an empty-text
\* candidate accepted after an earlier candidate was examined and rejected.
C10_Witness ==
    /\ pc = "select"
    /\ title_lower # << >>
    /\ author_lower = << >>
    /\ \E j \in scanned :
          /\ j > 1
          /\ EmptyText(j)
          /\ best_match = Some(book_links[j])

====
